---------------------------- MODULE Spec2Model ----------------------------
(***************************************************************************)
(* Hyperparameter search of dropback_experiments.                          *)
(*                                                                         *)
(* Part 1 (Spec, FairSpec): tune_asha() of baseline_experiment.py and      *)
(* tl_dropback_experiment.py: tune.run() launches num_samples trials of    *)
(* training() under resources_per_trial, every validation end is reported  *)
(* through TuneReportCallback, and the ASHAScheduler built in tune_asha()  *)
(* decides after each report whether the trial continues.  The scheduler   *)
(* and the trial runner are the ray.tune objects those lines construct;    *)
(* they are modelled by what they do when configured that way.             *)
(*                                                                         *)
(* Part 2 (ResumeSpec): ExperimentModel.on_load_checkpoint of models.py,   *)
(* called by load_from_checkpoint between reading the checkpoint file and  *)
(* load_state_dict.                                                        *)
(*                                                                         *)
(* Part 3 (DropbackSpec): the body of training() for one trial: the resume *)
(* sequence of tl_dropback_experiment.py (torch.load, load_state_dict,     *)
(* clearing the optimizer state, the fit of zero epochs, loading the       *)
(* optimizer state, the real fit) and the unresumed path of                *)
(* baseline_experiment.py, with the optimizer and learning-rate schedule   *)
(* of ExperimentModel.configure_optimizers.                                *)
(***************************************************************************)
EXTENDS Integers, Sequences, FiniteSets, TLC

\* ----------------------------------------------------------------- bounds
MaxSamples == 3
MaxT == 3
\* resources_per_trial: "cpu": 4, "gpu": gpus_per_trial (main() passes 1)
CpuPerTrial == 4
GpuPerTrial == 1

\* the scenario of four trials whose every report carries the same loss:
\* 0.9, 0.5, 0.7, 0.3 (in tenths)
ScenarioLosses == <<9, 5, 7, 3>>

Trials == 1..(IF MaxSamples > Len(ScenarioLosses) THEN MaxSamples ELSE Len(ScenarioLosses))
\* validation losses a unit may report (ptl/val_loss), as integers
LossValues == {3, 5}
\* sampled values of one hyperparameter (tune.uniform / tune.loguniform draws)
LrValues == {1, 2}
\* scheduler parameters the claims quantify over
GracePeriods == {1, 2}
ReductionFactors == {2, 3}
\* cluster resources tune.run schedules against: <<cpus, gpus>>
Budgets == {<<4, 1>>, <<9, 3>>}

\* checkpoint resume: parameter keys in state_dict order, tensor shapes,
\* the values a freshly constructed model may be initialized with, and how
\* many times the same checkpoint file is resumed
MaxKeys == 2
MaxResumes == 2
Keys == 1..MaxKeys
Shapes == {"(10,5)", "(20,5)"}
InitVals == {"init_a", "init_b"}
Saved == "saved"
Popped == "popped"

VARIABLES
    scenario,          \* TRUE in the four-trial scenario (losses fixed per trial)
    grace_period,      \* ASHAScheduler(grace_period=...)
    reduction_factor,  \* ASHAScheduler(reduction_factor=...)
    max_t,             \* ASHAScheduler(max_t=num_epochs); also Trainer(max_epochs=num_epochs)
    num_samples,       \* tune.run(num_samples=...)
    total_cpu,         \* cluster cpus
    total_gpu,         \* cluster gpus
    created,           \* trials generated so far (ids 1..created)
    status,            \* trial -> NONE, RUNNING, TERMINATED, COMPLETED, ERRORED
    iteration,         \* trial -> training_iteration (reports made = units finished)
    loss,              \* trial -> last reported "loss" (0 before the first report)
    config,            \* trial -> its sampled configuration
    pc,                \* trial -> idle, training (inside a unit), reported (blocked in tune.report)
    recorded,          \* the bracket's rungs: set of [rung, trial, rew, seq];
                       \* seq is the record's place in the rung's insertion order
    cpu_used,          \* committed cpus
    gpu_used,          \* committed gpus
    search,            \* running, done (tune.run returned), raised (TuneError)
    best               \* trial of analysis.best_config, 0 if none

VARIABLES
    ckpt_file,         \* the checkpoint file: [state_dict, optimizer_states, epoch]
    live_shape,        \* key -> shape of the model class being constructed
    strict,            \* load_from_checkpoint(strict=...)
    checkpoint,        \* the dict read from the file, as the last resume left it
    model_sd,          \* state_dict of the model the last resume built
    init_sd,           \* that model's state_dict as constructed
    log,               \* rank_zero_info messages of the last resume, in order
    raised,            \* errors load_state_dict raised in the last resume
    resumes,           \* resumes done
    prev               \* outcome of the resume before the last one

VARIABLES
    checkpoint_path,   \* training(): "file" (tl_dropback_experiment.py) or "none" (baseline)
    num_epochs,        \* training(num_epochs=...)
    tl_config,         \* the trial's sampled config: [lr, momentum, weight_decay]
    ckpt_opt,          \* optimizer_states[0] as the checkpoint file holds it
    optimizer_states,  \* checkpoint['optimizer_states'][0] of the dict torch.load returned
    optimizer,         \* trainer.optimizers[0], NoOptimizer before the first fit
    last_epoch,        \* MultiStepLR.last_epoch of the current optimizer's scheduler
    max_epochs,        \* trainer.max_epochs
    current_epoch,     \* trainer.current_epoch
    tl_pc,             \* position in training()
    units,             \* training units run so far, each with what was in effect
    reports            \* tune.report calls made so far, each with the fit it came from

dropbackVars == <<checkpoint_path, num_epochs, tl_config, ckpt_opt, optimizer_states,
                  optimizer, last_epoch, max_epochs, current_epoch, tl_pc, units,
                  reports>>

resumeVars == <<ckpt_file, live_shape, strict, checkpoint, model_sd, init_sd,
                log, raised, resumes, prev>>

searchVars == <<scenario, grace_period, reduction_factor, max_t, num_samples, total_cpu,
                total_gpu, created, status, iteration, loss, config, pc,
                recorded, cpu_used, gpu_used, search, best>>

vars == <<searchVars, resumeVars, dropbackVars>>

Terminal == {"TERMINATED", "COMPLETED", "ERRORED"}

\* ------------------------------------------------------------ ASHAScheduler
RECURSIVE Pow(_, _)
Pow(b, e) == IF e = 0 THEN 1 ELSE b * Pow(b, e - 1)

\* _Bracket.__init__: MAX_RUNGS = int(log(max_t / min_t) / log(rf) + 1)
MAX_RUNGS(min_t, maxt, rf) ==
    Cardinality({k \in 0..maxt : min_t * Pow(rf, k) <= maxt})

\* (mutant) rungs laid out from 1 instead of from the grace period
MilestoneFromOne(k) == Pow(reduction_factor, k)

\* _Bracket._rungs: milestone of rung k is min_t * rf^k
Milestone(k) == grace_period * Pow(reduction_factor, k)

RungIdx == 0..(MAX_RUNGS(grace_period, max_t, reduction_factor) - 1)

RungRecs(rec, k) == {r \in rec : r.rung = k}

\* i-th smallest (0-based) reward among the records S
Kth(S, i) ==
    CHOOSE v \in {r.rew : r \in S} :
        /\ Cardinality({r \in S : r.rew < v}) <= i
        /\ i < Cardinality({r \in S : r.rew <= v})

\* (mutant) a report equal to the cutoff is stopped too
AtOrBelowCutoff(S, cur_rew, rf) ==
    /\ S # {}
    /\ LET n  == Cardinality(S)
           h  == (n - 1) * (rf - 1)
           lo == h \div rf
           m  == h % rf
           a  == Kth(S, lo)
           b  == IF m = 0 THEN a ELSE Kth(S, lo + 1)
       IN  rf * cur_rew <= rf * a + m * (b - a)

\* _Bracket.cutoff and the comparison cur_rew < cutoff, with
\* cutoff = nanpercentile(recorded.values(), (1 - 1/rf) * 100), linear
\* interpolation; both sides multiplied by rf to stay in the integers.
\* An empty rung has cutoff None: nothing is below it.
BelowCutoff(S, cur_rew, rf) ==
    /\ S # {}
    /\ LET n  == Cardinality(S)
           h  == (n - 1) * (rf - 1)
           lo == h \div rf
           m  == h % rf
           a  == Kth(S, lo)
           b  == IF m = 0 THEN a ELSE Kth(S, lo + 1)
       IN  rf * cur_rew < rf * a + m * (b - a)

\* _Bracket.on_result: the rungs are scanned from the highest milestone down;
\* the first one the trial has reached and is not recorded at scores it.
ScoringRungs(rec, t, cur_iter) ==
    {k \in RungIdx : cur_iter >= Milestone(k)
                     /\ ~ \E r \in RungRecs(rec, k) : r.trial = t}

ScoringRung(rec, t, cur_iter) ==
    CHOOSE k \in ScoringRungs(rec, t, cur_iter) :
        \A j \in ScoringRungs(rec, t, cur_iter) : j <= k

\* mode="min": _metric_op = -1
MetricOp == -1

\* AsyncHyperBandScheduler.on_trial_result: [action, recorded']
on_trial_result(rec, t, cur_iter, metric) ==
    IF cur_iter >= max_t
    THEN [action |-> "STOP", budget |-> TRUE, rec |-> rec]
    ELSE IF ScoringRungs(rec, t, cur_iter) = {}
    THEN [action |-> "CONTINUE", budget |-> FALSE, rec |-> rec]
    ELSE LET k   == ScoringRung(rec, t, cur_iter)
             rew == MetricOp * metric
         IN  [action |-> IF BelowCutoff(RungRecs(rec, k), rew, reduction_factor)
                         THEN "STOP" ELSE "CONTINUE",
              budget |-> FALSE,
              rec    |-> rec \cup {[rung |-> k, trial |-> t, rew |-> rew,
                                  seq |-> Cardinality(RungRecs(rec, k)) + 1]}]

\* ------------------------------------------------------------------ tune.run
\* (mutant) a trial starts whenever the budget is not yet exceeded
HasResourcesNotExceeded ==
    /\ cpu_used <= total_cpu
    /\ gpu_used <= total_gpu

\* has_resources: the trial's request fits in what is not committed
HasResources ==
    /\ cpu_used + CpuPerTrial <= total_cpu
    /\ gpu_used + GpuPerTrial <= total_gpu

\* ExperimentAnalysis.best_trial (scope "last"): the first trial, in creation
\* order, whose last reported metric is strictly better than every earlier one
BestTrial ==
    LET cand == {t \in 1..created : loss[t] # 0}
    IN  IF cand = {} THEN 0
        ELSE CHOOSE t \in cand :
                 /\ \A u \in cand : loss[t] <= loss[u]
                 /\ \A u \in cand : u < t => loss[t] < loss[u]

\* the losses trial t may report at a validation end
LossChoices(t) == IF scenario THEN {ScenarioLosses[t]} ELSE LossValues

Setup(n) ==
    /\ scenario = FALSE
    /\ grace_period \in GracePeriods
    /\ reduction_factor \in ReductionFactors
    /\ max_t \in grace_period..MaxT
    /\ num_samples = n
    /\ \E b \in Budgets : total_cpu = b[1] /\ total_gpu = b[2]

GeneralSetup == Setup(MaxSamples)

\* grace_period=2, reduction_factor=2, num_samples=4, room for all four at once
ScenarioSetup ==
    /\ scenario = TRUE
    /\ grace_period = 2
    /\ reduction_factor = 2
    /\ max_t = 3
    /\ num_samples = Len(ScenarioLosses)
    /\ total_cpu = CpuPerTrial * Len(ScenarioLosses)
    /\ total_gpu = GpuPerTrial * Len(ScenarioLosses)

TrialsInit ==
    /\ created = 0
    /\ status = [t \in Trials |-> "NONE"]
    /\ iteration = [t \in Trials |-> 0]
    /\ loss = [t \in Trials |-> 0]
    /\ config = [t \in Trials |-> 0]
    /\ pc = [t \in Trials |-> "idle"]
    /\ recorded = {}
    /\ cpu_used = 0
    /\ gpu_used = 0
    /\ search = "running"
    /\ best = 0

\* The next sample is drawn and its trial started once its resources fit.
LaunchTrial(c) ==
    /\ search = "running"
    /\ created < num_samples
    /\ HasResources
    /\ LET t == created + 1 IN
        /\ created' = t
        /\ status' = [status EXCEPT ![t] = "RUNNING"]
        /\ config' = [config EXCEPT ![t] = c]
        /\ pc' = [pc EXCEPT ![t] = "training"]
    /\ cpu_used' = cpu_used + CpuPerTrial
    /\ gpu_used' = gpu_used + GpuPerTrial
    /\ UNCHANGED <<resumeVars, dropbackVars, scenario, grace_period, reduction_factor, max_t, num_samples,
                   total_cpu, total_gpu, iteration, loss, recorded, search, best>>

\* One epoch of trainer.fit: training pass, validation pass, and the
\* TuneReportCallback report at validation end, where the trial blocks.
TrainUnit(t, l) ==
    /\ status[t] = "RUNNING"
    /\ pc[t] = "training"
    /\ iteration[t] < max_t
    /\ iteration' = [iteration EXCEPT ![t] = @ + 1]
    /\ loss' = [loss EXCEPT ![t] = l]
    /\ pc' = [pc EXCEPT ![t] = "reported"]
    /\ UNCHANGED <<resumeVars, dropbackVars, scenario, grace_period, reduction_factor, max_t, num_samples,
                   total_cpu, total_gpu, created, status, config, recorded,
                   cpu_used, gpu_used, search, best>>

\* (mutant) the exception of one trial takes every running trial down
TrialErrorAbortsAll(t) ==
    /\ status[t] = "RUNNING"
    /\ pc[t] = "training"
    /\ status' = [u \in Trials |-> IF status[u] = "RUNNING" THEN "ERRORED" ELSE status[u]]
    /\ pc' = [u \in Trials |-> IF status[u] = "RUNNING" THEN "idle" ELSE pc[u]]
    /\ cpu_used' = 0
    /\ gpu_used' = 0
    /\ UNCHANGED <<resumeVars, dropbackVars, scenario, grace_period, reduction_factor, max_t, num_samples,
                   total_cpu, total_gpu, created, iteration, loss, config,
                   recorded, search, best>>

\* An exception inside training(): the trial fails and its resources return.
TrialError(t) ==
    /\ status[t] = "RUNNING"
    /\ pc[t] = "training"
    /\ status' = [status EXCEPT ![t] = "ERRORED"]
    /\ pc' = [pc EXCEPT ![t] = "idle"]
    /\ cpu_used' = cpu_used - CpuPerTrial
    /\ gpu_used' = gpu_used - GpuPerTrial
    /\ UNCHANGED <<resumeVars, dropbackVars, scenario, grace_period, reduction_factor, max_t, num_samples,
                   total_cpu, total_gpu, created, iteration, loss, config,
                   recorded, search, best>>

\* (mutant) a stopped trial is filed as failed
ProcessTrialResultStopIsError(t) ==
    /\ status[t] = "RUNNING"
    /\ pc[t] = "reported"
    /\ LET d == on_trial_result(recorded, t, iteration[t], loss[t]) IN
        /\ recorded' = d.rec
        /\ IF d.action = "STOP"
           THEN /\ status' = [status EXCEPT ![t] =
                                 IF d.budget THEN "COMPLETED" ELSE "ERRORED"]
                /\ pc' = [pc EXCEPT ![t] = "idle"]
                /\ cpu_used' = cpu_used - CpuPerTrial
                /\ gpu_used' = gpu_used - GpuPerTrial
           ELSE /\ pc' = [pc EXCEPT ![t] = "training"]
                /\ UNCHANGED <<status, cpu_used, gpu_used>>
    /\ UNCHANGED <<resumeVars, dropbackVars, scenario, grace_period, reduction_factor, max_t, num_samples,
                   total_cpu, total_gpu, created, iteration, loss, config,
                   search, best>>

\* The runner takes the trial's report, asks the scheduler and applies the
\* decision: CONTINUE resumes the blocked trial, STOP ends it.
ProcessTrialResult(t) ==
    /\ status[t] = "RUNNING"
    /\ pc[t] = "reported"
    /\ LET d == on_trial_result(recorded, t, iteration[t], loss[t]) IN
        /\ recorded' = d.rec
        /\ IF d.action = "STOP"
           THEN /\ status' = [status EXCEPT ![t] =
                                 IF d.budget THEN "COMPLETED" ELSE "TERMINATED"]
                /\ pc' = [pc EXCEPT ![t] = "idle"]
                /\ cpu_used' = cpu_used - CpuPerTrial
                /\ gpu_used' = gpu_used - GpuPerTrial
           ELSE /\ pc' = [pc EXCEPT ![t] = "training"]
                /\ UNCHANGED <<status, cpu_used, gpu_used>>
    /\ UNCHANGED <<resumeVars, dropbackVars, scenario, grace_period, reduction_factor, max_t, num_samples,
                   total_cpu, total_gpu, created, iteration, loss, config,
                   search, best>>

\* (mutant) the search is taken to be over once any trial has finished
AnyFinished ==
    /\ created = num_samples
    /\ \E t \in 1..created : status[t] \in Terminal

AllFinished ==
    /\ created = num_samples
    /\ \A t \in 1..created : status[t] \in Terminal

\* tune.run ends: with a failed trial it raises TuneError (raise_on_failed_trial
\* is left at its default) and line 113 is not reached; otherwise it returns
\* the analysis and the best configuration is printed.
EndSearch ==
    /\ search = "running"
    /\ AllFinished
    /\ IF \E t \in 1..created : status[t] = "ERRORED"
       THEN search' = "raised" /\ best' = 0
       ELSE search' = "done" /\ best' = BestTrial
    /\ UNCHANGED <<resumeVars, dropbackVars, scenario, grace_period, reduction_factor, max_t, num_samples,
                   total_cpu, total_gpu, created, status, iteration, loss,
                   config, pc, recorded, cpu_used, gpu_used>>

\* ------------------------------------------------------- checkpoint resume
Tensor(sh, v) == [shape |-> sh, val |-> v]

SkipMsg(k, req, got) == [kind |-> "skip", key |-> k, required |-> req, loaded |-> got]
DropMsg(k) == [kind |-> "drop", key |-> k, required |-> "", loaded |-> ""]

\* (mutant) a mismatched key is reported but left in the state_dict
HookKeyNoReplace(acc, k, model_state_dict) ==
    IF k \in DOMAIN model_state_dict
    THEN IF acc.state_dict[k].shape # model_state_dict[k].shape
         THEN [state_dict |-> acc.state_dict,
               log |-> Append(acc.log, SkipMsg(k, model_state_dict[k].shape,
                                               acc.state_dict[k].shape)),
               is_changed |-> TRUE]
         ELSE acc
    ELSE [acc EXCEPT !.log = Append(@, DropMsg(k)), !.is_changed = TRUE]

\* (mutant) a key the model lacks is reported but does not count as a change
HookKeyAbsentUnchanged(acc, k, model_state_dict) ==
    IF k \in DOMAIN model_state_dict
    THEN IF acc.state_dict[k].shape # model_state_dict[k].shape
         THEN [state_dict |-> [acc.state_dict EXCEPT ![k] = model_state_dict[k]],
               log |-> Append(acc.log, SkipMsg(k, model_state_dict[k].shape,
                                               acc.state_dict[k].shape)),
               is_changed |-> TRUE]
         ELSE acc
    ELSE [acc EXCEPT !.log = Append(@, DropMsg(k))]

\* on_load_checkpoint, the body of "for k in state_dict"
HookKey(acc, k, model_state_dict) ==
    IF k \in DOMAIN model_state_dict
    THEN IF acc.state_dict[k].shape # model_state_dict[k].shape
         THEN [state_dict |-> [acc.state_dict EXCEPT ![k] = model_state_dict[k]],
               log |-> Append(acc.log, SkipMsg(k, model_state_dict[k].shape,
                                               acc.state_dict[k].shape)),
               is_changed |-> TRUE]
         ELSE acc
    ELSE [acc EXCEPT !.log = Append(@, DropMsg(k)), !.is_changed = TRUE]

\* the loop over the keys of state_dict, in order, from key k on
RECURSIVE HookLoop(_, _, _)
HookLoop(acc, k, model_state_dict) ==
    IF k > MaxKeys THEN acc
    ELSE HookLoop(IF k \in DOMAIN acc.state_dict
                  THEN HookKey(acc, k, model_state_dict) ELSE acc,
                  k + 1, model_state_dict)

\* ExperimentModel.on_load_checkpoint: the checkpoint dict as the hook leaves
\* it (it is changed in place), and the messages logged
on_load_checkpoint(ckpt, model_state_dict) ==
    LET r == HookLoop([state_dict |-> ckpt.state_dict, log |-> <<>>,
                       is_changed |-> FALSE], 1, model_state_dict)
    IN  [checkpoint |-> [ckpt EXCEPT !.state_dict = r.state_dict,
                                     !.optimizer_states =
                                         IF r.is_changed THEN Popped ELSE @],
         log |-> r.log,
         is_changed |-> r.is_changed]

\* Module.load_state_dict(state_dict, strict): equal-shaped entries are
\* copied; a size mismatch always is an error, unexpected and missing keys
\* are errors when strict; the errors are raised after the copying
load_state_dict(msd, sd, is_strict) ==
    [sd |-> [k \in DOMAIN msd |->
                IF k \in DOMAIN sd /\ sd[k].shape = msd[k].shape
                THEN sd[k] ELSE msd[k]],
     errors |->
        {e \in {"size_mismatch", "unexpected_key", "missing_key"} :
            \/ e = "size_mismatch"
                 /\ \E k \in DOMAIN sd \cap DOMAIN msd : sd[k].shape # msd[k].shape
            \/ e = "unexpected_key" /\ is_strict /\ DOMAIN sd \ DOMAIN msd # {}
            \/ e = "missing_key" /\ is_strict /\ DOMAIN msd \ DOMAIN sd # {}}]

\* (mutant) the dict of the previous resume is kept and used again
CachedCheckpoint == IF resumes = 0 THEN ckpt_file ELSE checkpoint

\* load_from_checkpoint(checkpoint_path, ...) reads the file at every call
LoadedCheckpoint == ckpt_file

\* what a resume produced
Outcome ==
    [log |-> log, raised |-> raised, model_sd |-> model_sd, init_sd |-> init_sd,
     optimizer_states |-> checkpoint.optimizer_states,
     handed |-> DOMAIN checkpoint.state_dict]

NoOutcome == [log |-> <<>>, raised |-> {}, model_sd |-> <<>>, init_sd |-> <<>>,
              optimizer_states |-> Saved, handed |-> {}]

StateDicts(vals) ==
    UNION {[D -> {Tensor(sh, v) : sh \in Shapes, v \in vals}] :
              D \in SUBSET Keys \ {{}}}

ResumeIdle ==
    /\ checkpoint = ckpt_file
    /\ model_sd = <<>>
    /\ init_sd = <<>>
    /\ log = <<>>
    /\ raised = {}
    /\ resumes = 0
    /\ prev = NoOutcome

ResumeInit ==
    /\ \E sd \in StateDicts({Saved}) :
          ckpt_file = [state_dict |-> sd, optimizer_states |-> Saved, epoch |-> 1]
    /\ \E D \in SUBSET Keys \ {{}} : live_shape \in [D -> Shapes]
    /\ strict \in BOOLEAN
    /\ ResumeIdle

\* the checkpoint of the scenario: one tensor saved as (10,5)
ScenarioCheckpoint ==
    /\ ckpt_file = [state_dict |-> (1 :> Tensor("(10,5)", Saved)),
                    optimizer_states |-> Saved, epoch |-> 1]
    /\ live_shape = (1 :> "(20,5)")
    /\ strict = TRUE
    /\ ResumeIdle

\* ExperimentModel.load_from_checkpoint(checkpoint_path, config=config,
\* num_classes=num_classes): the file is read, the model constructed with
\* its own initial values, the hook run on the dict, then load_state_dict.
LoadFromCheckpoint(init) ==
    /\ resumes < MaxResumes
    /\ LET fresh == [k \in DOMAIN live_shape |-> Tensor(live_shape[k], init[k])]
           h == on_load_checkpoint(LoadedCheckpoint, fresh)
           l == load_state_dict(fresh, h.checkpoint.state_dict, strict)
       IN  /\ checkpoint' = h.checkpoint
           /\ log' = h.log
           /\ model_sd' = l.sd
           /\ init_sd' = fresh
           /\ raised' = l.errors
    /\ prev' = IF resumes = 0 THEN NoOutcome ELSE Outcome
    /\ resumes' = resumes + 1
    /\ UNCHANGED <<ckpt_file, live_shape, strict, searchVars, dropbackVars>>

ResumeNext ==
    \E init \in [DOMAIN live_shape -> InitVals] : LoadFromCheckpoint(init)

\* ------------------------------------------------- training() for one trial
\* values tune.uniform / tune.loguniform may draw for momentum (in tenths)
\* and weight_decay; lr is drawn from LrValues
MomentumValues == {8, 9}
WeightDecayValues == {1, 4}
\* hyperparameters the checkpoint's optimizer was saved with
CkptHypers == {[lr |-> 2, momentum |-> 9, weight_decay |-> 4],
               [lr |-> 3, momentum |-> 7, weight_decay |-> 5]}

\* lr_scheduler.MultiStepLR(optimizer, milestones=[150, 200, 250], gamma=0.1):
\* the milestones on the model's scale of epochs, gamma as a divisor
milestones == <<1, 2, 3>>
GammaInv == 10
\* learning rates are held in units of gamma^Len(milestones), so that every
\* decayed rate is an integer
LrUnit == Pow(GammaInv, Len(milestones))

NoOptimizer == [lr |-> 0, initial_lr |-> 0, momentum |-> 0, weight_decay |-> 0,
                params |-> {}, state |-> {}]

\* ExperimentModel.configure_optimizers: optim.SGD(trainable_parameters,
\* lr=self.lr, momentum=self.momentum, weight_decay=self.weight_decay) with
\* no per-parameter state yet; MultiStepLR.__init__ records initial_lr
configure_optimizers(cfg, params) ==
    [lr |-> cfg.lr * LrUnit, initial_lr |-> cfg.lr * LrUnit,
     momentum |-> cfg.momentum, weight_decay |-> cfg.weight_decay,
     params |-> params, state |-> {}]

\* MultiStepLR.get_lr at scheduler.step(): the rate is multiplied by gamma
\* once for every milestone equal to the new last_epoch
StepLr(lr, e) ==
    lr \div Pow(GammaInv, Cardinality({i \in 1..Len(milestones) : milestones[i] = e}))

\* SGD.step with momentum: a parameter without a momentum_buffer gets one
\* made from its gradient, an existing buffer is updated in place and so
\* keeps what it was loaded with
SGDStep(state, params) ==
    {<<k, IF <<k, "ckpt">> \in state THEN "ckpt" ELSE "trained">> : k \in params}

\* Optimizer.load_state_dict(state_dict): the saved groups must match the
\* optimizer's in size; then the state is the saved state and every group
\* is the saved group (lr, momentum, weight_decay, initial_lr) with the
\* optimizer's own params
OptimizerLoadStateDict(opt, saved) ==
    IF Cardinality(saved.params) # Cardinality(opt.params)
    THEN [optimizer |-> opt, errors |-> {"group_size"}]
    ELSE [optimizer |-> [lr |-> saved.lr, initial_lr |-> saved.initial_lr,
                         momentum |-> saved.momentum,
                         weight_decay |-> saved.weight_decay,
                         params |-> opt.params, state |-> saved.state],
          errors |-> {}]

\* TuneReportCallback(..., on="validation_end"): nothing is reported from the
\* validation of the sanity check; otherwise one tune.report, which Ray
\* numbers training_iteration = reports so far + 1
TuneReportCallback(sanity_checking, fit) ==
    IF sanity_checking THEN <<>>
    ELSE <<[fit |-> fit, training_iteration |-> Len(reports) + 1]>>

\* the state of training() before its first statement
TrainingStart ==
    /\ optimizer_states = ckpt_opt
    /\ optimizer = NoOptimizer
    /\ last_epoch = 0
    /\ max_epochs = num_epochs      \* pl.Trainer(max_epochs=num_epochs)
    /\ current_epoch = 0
    /\ tl_pc = "start"
    /\ units = <<>>
    /\ reports = <<>>

SavedOptimizer(h, keys) ==
    [lr |-> h.lr * LrUnit, initial_lr |-> h.lr * LrUnit, momentum |-> h.momentum,
     weight_decay |-> h.weight_decay, params |-> keys,
     state |-> {<<k, "ckpt">> : k \in keys}]

\* training() not entered: the trial of the other parts
DropbackIdle ==
    /\ checkpoint_path = "none"
    /\ num_epochs = 1
    /\ tl_config = [lr |-> 1, momentum |-> 8, weight_decay |-> 1]
    /\ ckpt_opt = SavedOptimizer([lr |-> 2, momentum |-> 9, weight_decay |-> 4],
                                 DOMAIN ckpt_file.state_dict)
    /\ TrainingStart

DropbackInit ==
    /\ checkpoint_path \in {"none", "file"}
    /\ num_epochs \in 1..MaxT
    /\ tl_config \in [lr : LrValues, momentum : MomentumValues,
                      weight_decay : WeightDecayValues]
    /\ \E h \in CkptHypers : ckpt_opt = SavedOptimizer(h, DOMAIN ckpt_file.state_dict)
    /\ TrainingStart

\* lines 66-71 and 83: the model is constructed from the config; with a
\* checkpoint path the file is read and its state_dict loaded (strict)
LoadCheckpoint(init) ==
    /\ tl_pc = "start"
    /\ LET fresh == [k \in DOMAIN live_shape |-> Tensor(live_shape[k], init[k])]
           l == load_state_dict(fresh, ckpt_file.state_dict, TRUE)
       IN  /\ init_sd' = fresh
           /\ IF checkpoint_path = "none"
              THEN /\ model_sd' = fresh
                   /\ raised' = {}
                   /\ tl_pc' = "ready"
              ELSE /\ model_sd' = l.sd
                   /\ raised' = l.errors
                   /\ tl_pc' = IF l.errors = {} THEN "loaded" ELSE "raised"
    /\ optimizer_states' = ckpt_opt
    /\ UNCHANGED <<checkpoint_path, num_epochs, tl_config, ckpt_opt, optimizer,
                   last_epoch, max_epochs, current_epoch, units, reports>>
    /\ UNCHANGED <<ckpt_file, live_shape, strict, checkpoint, log, resumes, prev,
                   searchVars>>

\* line 74: checkpoint['optimizer_states'][0]['state'] = {}
ClearMomentum ==
    /\ tl_pc = "loaded"
    /\ optimizer_states' = [optimizer_states EXCEPT !.state = {}]
    /\ tl_pc' = "cleared"
    /\ UNCHANGED <<checkpoint_path, num_epochs, tl_config, ckpt_opt, optimizer,
                   last_epoch, max_epochs, current_epoch, units, reports>>
    /\ UNCHANGED <<resumeVars, searchVars>>

\* (mutant) the fit that creates the optimizer is started with max_epochs
\* left as constructed
ZeroFitKeepsMaxEpochs ==
    /\ tl_pc = "cleared"
    /\ max_epochs' = max_epochs
    /\ optimizer' = configure_optimizers(tl_config, DOMAIN live_shape)
    /\ last_epoch' = 0
    /\ reports' = reports \o TuneReportCallback(TRUE, "fit0")
    /\ tl_pc' = "fit0"
    /\ UNCHANGED <<checkpoint_path, num_epochs, tl_config, ckpt_opt, optimizer_states,
                   current_epoch, units>>
    /\ UNCHANGED <<resumeVars, searchVars>>

\* lines 76-77: trainer.max_epochs = 0; trainer.fit(...) as far as the start
\* of its loop: every fit calls configure_optimizers and runs the sanity
\* check's validation
ZeroFit ==
    /\ tl_pc = "cleared"
    /\ max_epochs' = 0
    /\ optimizer' = configure_optimizers(tl_config, DOMAIN live_shape)
    /\ last_epoch' = 0
    /\ reports' = reports \o TuneReportCallback(TRUE, "fit0")
    /\ tl_pc' = "fit0"
    /\ UNCHANGED <<checkpoint_path, num_epochs, tl_config, ckpt_opt, optimizer_states,
                   current_epoch, units>>
    /\ UNCHANGED <<resumeVars, searchVars>>

\* one epoch of trainer.fit: training with the optimizer as it is, the
\* validation and its report, the scheduler's step; the trial goes on or is
\* stopped by the search's scheduler while it waits in tune.report
FitEpoch(decision) ==
    /\ tl_pc \in {"fit0", "fit"}
    /\ current_epoch < max_epochs
    /\ units' = Append(units, [fit |-> tl_pc, epoch |-> current_epoch,
                               lr |-> optimizer.lr,
                               momentum |-> optimizer.momentum,
                               weight_decay |-> optimizer.weight_decay,
                               state |-> optimizer.state])
    /\ reports' = reports \o TuneReportCallback(FALSE, tl_pc)
    /\ optimizer' = [optimizer EXCEPT
                        !.state = SGDStep(@, optimizer.params),
                        !.lr = StepLr(@, last_epoch + 1)]
    /\ last_epoch' = last_epoch + 1
    /\ current_epoch' = current_epoch + 1
    /\ tl_pc' = IF decision = "STOP" THEN "stopped" ELSE tl_pc
    /\ UNCHANGED <<checkpoint_path, num_epochs, tl_config, ckpt_opt, optimizer_states,
                   max_epochs>>
    /\ UNCHANGED <<resumeVars, searchVars>>

\* trainer.fit returns once current_epoch >= max_epochs; after the fit of
\* zero epochs, line 78: trainer.max_epochs = num_epochs
FitReturn ==
    /\ tl_pc \in {"fit0", "fit"}
    /\ current_epoch >= max_epochs
    /\ IF tl_pc = "fit0"
       THEN max_epochs' = num_epochs /\ tl_pc' = "initialized"
       ELSE max_epochs' = max_epochs /\ tl_pc' = "done"
    /\ UNCHANGED <<checkpoint_path, num_epochs, tl_config, ckpt_opt, optimizer_states,
                   optimizer, last_epoch, current_epoch, units, reports>>
    /\ UNCHANGED <<resumeVars, searchVars>>

\* line 79: trainer.optimizers[0].load_state_dict(checkpoint['optimizer_states'][0])
LoadOptimizerState ==
    /\ tl_pc = "initialized"
    /\ LET r == OptimizerLoadStateDict(optimizer, optimizer_states)
       IN  /\ optimizer' = r.optimizer
           /\ tl_pc' = IF r.errors = {} THEN "opt_loaded" ELSE "raised"
    /\ UNCHANGED <<checkpoint_path, num_epochs, tl_config, ckpt_opt, optimizer_states,
                   last_epoch, max_epochs, current_epoch, units, reports>>
    /\ UNCHANGED <<resumeVars, searchVars>>

\* (mutant) the fit trains with the optimizer the trainer already has
RealFitKeepsOptimizer ==
    /\ tl_pc \in {"opt_loaded", "ready"}
    /\ optimizer' = IF optimizer = NoOptimizer
                    THEN configure_optimizers(tl_config, DOMAIN live_shape)
                    ELSE optimizer
    /\ last_epoch' = 0
    /\ reports' = reports \o TuneReportCallback(TRUE, "fit")
    /\ tl_pc' = "fit"
    /\ UNCHANGED <<checkpoint_path, num_epochs, tl_config, ckpt_opt, optimizer_states,
                   max_epochs, current_epoch, units>>
    /\ UNCHANGED <<resumeVars, searchVars>>

\* line 85: trainer.fit(...) as far as the start of its loop: this fit too
\* calls configure_optimizers, and its optimizer replaces the trainer's
RealFit ==
    /\ tl_pc \in {"opt_loaded", "ready"}
    /\ optimizer' = configure_optimizers(tl_config, DOMAIN live_shape)
    /\ last_epoch' = 0
    /\ reports' = reports \o TuneReportCallback(TRUE, "fit")
    /\ tl_pc' = "fit"
    /\ UNCHANGED <<checkpoint_path, num_epochs, tl_config, ckpt_opt, optimizer_states,
                   max_epochs, current_epoch, units>>
    /\ UNCHANGED <<resumeVars, searchVars>>

DropbackNext ==
    \/ \E init \in [DOMAIN live_shape -> InitVals] : LoadCheckpoint(init)
    \/ ClearMomentum
    \/ ZeroFit
    \/ \E decision \in {"CONTINUE", "STOP"} : FitEpoch(decision)
    \/ FitReturn
    \/ LoadOptimizerState
    \/ RealFit

SearchNext ==
    \/ \E c \in LrValues : LaunchTrial(c)
    \/ \E t \in Trials : \E l \in LossChoices(t) : TrainUnit(t, l)
    \/ \E t \in Trials : TrialError(t)
    \/ \E t \in Trials : ProcessTrialResult(t)
    \/ EndSearch

SearchInit == (GeneralSetup \/ ScenarioSetup) /\ TrialsInit

Init == SearchInit /\ ScenarioCheckpoint /\ DropbackIdle

Next == SearchNext

Spec == Init /\ [][Next]_vars

\* Every trial that can run a unit does, every report is processed, free
\* resources are used and the finished search returns; nothing obliges a
\* trial to fail.
Fairness ==
    /\ WF_vars(\E c \in LrValues : LaunchTrial(c))
    /\ \A t \in Trials : WF_vars(\E l \in LossChoices(t) : TrainUnit(t, l))
    /\ \A t \in Trials : WF_vars(ProcessTrialResult(t))
    /\ WF_vars(EndSearch)

\* termination is checked on searches of one trial fewer
FairInit == Setup(MaxSamples - 1) /\ TrialsInit /\ ScenarioCheckpoint /\ DropbackIdle

FairSpec == FairInit /\ [][Next]_vars /\ Fairness

\* the resumes of one checkpoint file, the search not started
ResumeSpecInit == ResumeInit /\ ScenarioSetup /\ TrialsInit /\ DropbackIdle

ResumeSpec == ResumeSpecInit /\ [][ResumeNext]_vars

\* one trial's training(), over the checkpoints and models of the resume
DropbackSpecInit == ResumeInit /\ DropbackInit /\ ScenarioSetup /\ TrialsInit

DropbackSpec == DropbackSpecInit /\ [][DropbackNext]_vars

\* ------------------------------------------------------------------ claims
Running == {t \in Trials : status[t] = "RUNNING"}

\* a trial the scheduler stopped at rung k: it is TERMINATED where it was scored
StoppedAt(t, k) == status[t] = "TERMINATED" /\ iteration[t] = Milestone(k)

Promoted(k) == {r \in RungRecs(recorded, k) : ~ StoppedAt(r.trial, k)}

CeilDiv(a, b) == (a + b - 1) \div b

\* C1: a trial stopped by the scheduler (TERMINATED at a rung, or COMPLETED
\* at max_t) has run at least grace_period units, for every grace_period,
\* reduction_factor and max_t >= grace_period and every interleaving.
C1_NoStopBeforeGrace ==
    \A t \in Trials :
        status[t] \in {"TERMINATED", "COMPLETED"} => iteration[t] >= grace_period

\* C1 witness: one trial was stopped at the grace period while another, whose
\* processed report below the grace period carried a worse loss, still runs.
C1_Witness ==
    \E t, u \in Trials :
        /\ status[t] = "TERMINATED" /\ iteration[t] = grace_period
        /\ status[u] = "RUNNING" /\ pc[u] = "training"
        /\ iteration[u] >= 1 /\ iteration[u] < grace_period
        /\ loss[u] > loss[t]

\* C2 as stated: at every rung the promoted trials are exactly the best
\* ceil(scored / reduction_factor) of the scored ones (equal losses ranked by
\* earlier report), and in the scenario exactly the trials with losses 0.5
\* and 0.3 are promoted once all four have reported at unit 2.
C2_ExactTopFraction ==
    /\ \A k \in RungIdx :
          LET S == RungRecs(recorded, k) IN
          /\ Cardinality(Promoted(k)) = CeilDiv(Cardinality(S), reduction_factor)
          /\ \A p \in Promoted(k), q \in S \ Promoted(k) :
                \/ p.rew > q.rew
                \/ p.rew = q.rew /\ p.seq < q.seq
    /\ (scenario /\ Cardinality(RungRecs(recorded, 0)) = Len(ScenarioLosses))
          => {r.trial : r \in Promoted(0)} = {2, 4}

\* the 1/rf quantile (linear interpolation) of the losses of the records S,
\* compared from above: TRUE iff l is strictly greater than it
AboveLowerQuantile(S, l) ==
    LET n  == Cardinality(S)
        j  == (n - 1) \div reduction_factor
        m  == (n - 1) % reduction_factor
        jth(i) == CHOOSE v \in {-r.rew : r \in S} :
                     /\ Cardinality({r \in S : -r.rew < v}) <= i
                     /\ i < Cardinality({r \in S : -r.rew <= v})
        x  == jth(j)
        y  == IF m = 0 THEN x ELSE jth(j + 1)
    IN  reduction_factor * l > reduction_factor * x + m * (y - x)

\* C2 amended: a trial scored at a rung is stopped iff other trials were
\* recorded at the rung before it and its loss is strictly greater than the
\* 1/reduction_factor quantile of their losses (the median for factor 2);
\* the first trial recorded at a rung and a trial that ties the quantile are
\* promoted.  In the scenario the trial with loss 0.3 is promoted in every
\* order of arrival.
C2_PromotedUnlessAboveQuantile ==
    /\ \A r \in recorded :
          LET earlier == {q \in RungRecs(recorded, r.rung) : q.seq < r.seq} IN
          /\ Cardinality(earlier) = r.seq - 1
          /\ (StoppedAt(r.trial, r.rung) /\ status[r.trial] = "TERMINATED")
                <=> (earlier # {} /\ AboveLowerQuantile(earlier, -r.rew))
    /\ scenario => status[4] # "TERMINATED"

\* C2 witness: in the scenario all four trials have reported at unit 2 and
\* the trial with loss 0.5 was stopped.
C2_Witness ==
    /\ scenario
    /\ Cardinality(RungRecs(recorded, 0)) = Len(ScenarioLosses)
    /\ status[2] = "TERMINATED"

\* C3: the allocations of the RUNNING trials never exceed the budget, and
\* the committed counters are exactly those allocations (committed at launch,
\* returned on COMPLETED, TERMINATED or ERRORED only).
C3_ResourceInvariant ==
    /\ CpuPerTrial * Cardinality(Running) <= total_cpu
    /\ GpuPerTrial * Cardinality(Running) <= total_gpu
    /\ cpu_used = CpuPerTrial * Cardinality(Running)
    /\ gpu_used = GpuPerTrial * Cardinality(Running)

\* C3 witness: a sample is still to be launched and does not fit, while two
\* trials run.
C3_Witness ==
    /\ created < num_samples
    /\ Cardinality(Running) = 2
    /\ cpu_used + CpuPerTrial > total_cpu

\* C4: a step in which a trial fails changes that trial's status to ERRORED
\* and returns its resources; no other trial's status, metrics, progress or
\* configuration changes, the search keeps running, and while it runs there
\* is always a trial running, a sample that can be launched, or nothing left.
C4_TrialIsolation ==
    /\ [][\A t \in Trials :
            (status[t] = "RUNNING" /\ status'[t] = "ERRORED") =>
                /\ \A u \in Trials \ {t} :
                      /\ status'[u] = status[u]
                      /\ loss'[u] = loss[u]
                      /\ iteration'[u] = iteration[u]
                      /\ config'[u] = config[u]
                /\ config'[t] = config[t]
                /\ recorded' = recorded
                /\ cpu_used' = cpu_used - CpuPerTrial
                /\ gpu_used' = gpu_used - GpuPerTrial
                /\ search' = "running"
                /\ created' < num_samples' => HasResources']_vars
    /\ [](search = "running" =>
            \/ Running # {}
            \/ created < num_samples /\ HasResources
            \/ AllFinished)

\* C4 witness: the first trial failed after reporting, a sibling completed
\* and a later sample is running.
C4_Witness ==
    /\ status[1] = "ERRORED" /\ iteration[1] >= 1
    /\ status[2] = "COMPLETED"
    /\ status[3] = "RUNNING"

NumTerminal == Cardinality({t \in Trials : status[t] \in Terminal})

\* C8: under fair scheduling the search ends; it has ended only with all
\* num_samples trials created and terminal, and ends once they are; never
\* more than num_samples trials exist; a sample that fits is launched; every
\* running trial reaches a terminal status; COMPLETED is reached at exactly
\* max_t units and a rung stop strictly before.
C8_SearchTerminates ==
    /\ <>(search # "running")
    /\ [](search # "running" => NumTerminal = num_samples)
    /\ [](NumTerminal = num_samples => <>(search # "running"))
    /\ [](/\ created <= num_samples
          /\ \A t \in Trials : status[t] # "NONE" <=> t <= created)
    /\ \A n \in 0..MaxSamples :
          (created = n /\ n < num_samples /\ HasResources) ~> (created > n)
    /\ \A t \in Trials : [](status[t] = "RUNNING" => <>(status[t] \in Terminal))
    /\ [](\A t \in Trials :
            /\ status[t] = "COMPLETED" => iteration[t] = max_t
            /\ status[t] = "TERMINATED" => iteration[t] < max_t)

\* C8 witness: the search returned and every trial ran to max_t.
C8_Witness ==
    /\ search = "done"
    /\ \A t \in 1..num_samples : status[t] = "COMPLETED" /\ iteration[t] = max_t

\* C9 as stated: once the search has ended and some trial is COMPLETED or
\* TERMINATED, the best result is one of those trials with the least last
\* reported loss; a failed trial is never the best.
C9_BestAmongFinished ==
    (search # "running" /\ \E t \in Trials : status[t] \in {"COMPLETED", "TERMINATED"})
        => /\ best # 0
           /\ status[best] \in {"COMPLETED", "TERMINATED"}
           /\ \A u \in Trials :
                 status[u] \in {"COMPLETED", "TERMINATED"} => loss[best] <= loss[u]

\* C10: a trial is stopped only while it is blocked in its report at the end
\* of a unit: the step keeps the unit count, the loss of that unit is the one
\* the rung recorded, the result is TERMINATED or COMPLETED and never
\* ERRORED, and a stopped trial never runs again.  A trial inside a unit
\* only goes on or fails.
C10_StopAtUnitBoundary ==
    /\ [][\A t \in Trials :
            /\ (status[t] = "RUNNING" /\ status'[t] \in {"TERMINATED", "COMPLETED"}) =>
                  /\ pc[t] = "reported"
                  /\ iteration[t] >= 1
                  /\ iteration'[t] = iteration[t]
                  /\ loss'[t] = loss[t] /\ loss[t] # 0
                  /\ pc'[t] = "idle"
                  /\ status'[t] = "TERMINATED" =>
                        \E r \in recorded' :
                            /\ r.trial = t /\ r.rew = MetricOp * loss[t]
                            /\ Milestone(r.rung) = iteration[t]
            /\ (pc[t] = "reported" /\ status'[t] # status[t]) =>
                  status'[t] \in {"TERMINATED", "COMPLETED"}
            /\ (pc[t] = "training" /\ status'[t] # status[t]) =>
                  status'[t] = "ERRORED"
            /\ status[t] \in Terminal =>
                  /\ status'[t] = status[t]
                  /\ iteration'[t] = iteration[t]
                  /\ pc'[t] = "idle"]_vars

\* C10 witness: a trial was stopped at a rung while a sibling is inside a unit.
C10_Witness ==
    \E t, u \in Trials :
        /\ status[t] = "TERMINATED" /\ pc[t] = "idle" /\ iteration[t] >= 1
        /\ status[u] = "RUNNING" /\ pc[u] = "training" /\ iteration[u] >= 1

\* --------------------------------------------------- claims on the resume
CkptKeys == DOMAIN ckpt_file.state_dict
LiveKeys == DOMAIN live_shape

Logged(m) == {i \in 1..Len(log) : log[i] = m}
LoggedAbout(kind, k) == {i \in 1..Len(log) : log[i].kind = kind /\ log[i].key = k}

\* C5: after a resume, a key of both the checkpoint and the model with equal
\* shapes holds the checkpoint's tensor and caused no message; one with
\* different shapes holds the tensor the model was constructed with (of the
\* model's shape), was logged once with the key, the required and the loaded
\* shape, and had the optimizer states dropped from the checkpoint;
\* load_state_dict reports no size mismatch.
C5_ShapeMismatchSkipped ==
    resumes >= 1 =>
        /\ "size_mismatch" \notin raised
        /\ \A k \in CkptKeys \cap LiveKeys :
              IF ckpt_file.state_dict[k].shape = live_shape[k]
              THEN /\ model_sd[k] = ckpt_file.state_dict[k]
                   /\ checkpoint.state_dict[k] = ckpt_file.state_dict[k]
                   /\ LoggedAbout("skip", k) = {}
              ELSE /\ model_sd[k] = init_sd[k]
                   /\ model_sd[k].shape = live_shape[k]
                   /\ model_sd[k].val \in InitVals
                   /\ checkpoint.state_dict[k] = init_sd[k]
                   /\ Cardinality(LoggedAbout("skip", k)) = 1
                   /\ Logged(SkipMsg(k, live_shape[k],
                                     ckpt_file.state_dict[k].shape)) # {}
                   /\ checkpoint.optimizer_states = Popped

\* C5 witness: a resume that met one key saved as (10,5) where the model
\* wants (20,5) and one key of equal shapes, and did not raise.
C5_Witness ==
    /\ resumes >= 1
    /\ raised = {}
    /\ \E k, j \in CkptKeys \cap LiveKeys :
          /\ ckpt_file.state_dict[k].shape = "(10,5)" /\ live_shape[k] = "(20,5)"
          /\ ckpt_file.state_dict[j].shape = live_shape[j]

\* C6 as stated: after a resume, a checkpoint key the model does not have is
\* not among the keys handed to load_state_dict, was logged as dropped, the
\* load raised nothing and the optimizer states were dropped.
C6_AbsentKeyDropped ==
    resumes >= 1 =>
        \A k \in CkptKeys \ LiveKeys :
            /\ k \notin DOMAIN checkpoint.state_dict
            /\ Logged(DropMsg(k)) # {}
            /\ raised = {}
            /\ checkpoint.optimizer_states = Popped

MismatchedKeys ==
    {k \in CkptKeys : k \notin LiveKeys \/ ckpt_file.state_dict[k].shape # live_shape[k]}

C13_OptimizerStateDroppedIffChanged ==
    resumes >= 1 =>
        /\ (checkpoint.optimizer_states = Popped) <=> (MismatchedKeys # {})
        /\ MismatchedKeys # {} => log # <<>>
        /\ MismatchedKeys = {} =>
              /\ checkpoint = ckpt_file
              /\ checkpoint.optimizer_states = Saved
              /\ log = <<>>

\* C13 witness: a resume of a checkpoint all of whose keys, more than one,
\* are in the model with equal shapes.
C13_Witness ==
    /\ resumes >= 1
    /\ Cardinality(CkptKeys) >= 2
    /\ MismatchedKeys = {}
    /\ checkpoint.optimizer_states = Saved

\* ---------------------------------------------- claims on training()
RealUnits == {i \in 1..Len(units) : units[i].fit = "fit"}

CkptBuffers(state) == {k \in Keys : <<k, "ckpt">> \in state}

\* C12: in a resumed trial, the fit that creates the optimizer runs with
\* max_epochs = 0, and until the real fit has started no unit has run and
\* no report was made; every unit and every report belongs to the real
\* fit; the real fit starts after the cleared optimizer state was loaded,
\* and its first unit begins with an optimizer holding no momentum buffer
\* of the checkpoint.
C12_CleanMomentumAfterZeroFit ==
    checkpoint_path = "file" =>
        /\ tl_pc = "fit0" => max_epochs = 0
        /\ tl_pc \in {"start", "loaded", "cleared", "fit0", "initialized", "opt_loaded"}
              => units = <<>> /\ reports = <<>>
        /\ \A i \in 1..Len(units) : units[i].fit = "fit"
        /\ \A j \in 1..Len(reports) : reports[j].fit = "fit"
        /\ tl_pc \in {"opt_loaded", "fit"} => optimizer_states.state = {}
        /\ units # <<>> => CkptBuffers(units[1].state) = {}
        /\ tl_pc \in {"fit", "stopped", "done"} => CkptBuffers(optimizer.state) = {}

\* C12 witness: a trial resumed from a checkpoint whose optimizer held
\* momentum buffers has run its first real unit and reported it.
C12_Witness ==
    /\ checkpoint_path = "file"
    /\ CkptBuffers(ckpt_opt.state) # {}
    /\ tl_pc = "fit"
    /\ Len(units) = 1
    /\ Len(reports) = 1

\* C14 as stated: every unit of the real fit trains with the lr, momentum
\* and weight_decay sampled for the trial.
C14_HyperparametersAsSampled ==
    \A i \in RealUnits :
        /\ units[i].lr = tl_config.lr * LrUnit
        /\ units[i].momentum = tl_config.momentum
        /\ units[i].weight_decay = tl_config.weight_decay

\* the learning rate MultiStepLR sets for epoch e from the rate lr0
DecayedLr(lr0, e) ==
    lr0 \div Pow(GammaInv, Cardinality({i \in 1..Len(milestones) : milestones[i] <= e}))

\* C14 amended: the trial's config never changes, and every unit of the
\* real fit, resumed or not, trains with the sampled momentum and
\* weight_decay and with the sampled lr multiplied by gamma once for each
\* milestone of the schedule the unit's epoch has reached; the values
\* in the checkpoint's optimizer state are not in effect in any unit.
C14_SampledHyperparametersDecayed ==
    /\ [](\A i \in RealUnits :
            /\ units[i].lr = DecayedLr(tl_config.lr * LrUnit, units[i].epoch)
            /\ units[i].momentum = tl_config.momentum
            /\ units[i].weight_decay = tl_config.weight_decay)
    /\ [][tl_config' = tl_config]_vars

\* C14 witness: a resumed trial whose checkpoint was saved with another lr,
\* momentum and weight_decay than it sampled has run a unit before and a
\* unit after the first milestone.
C14_Witness ==
    /\ checkpoint_path = "file"
    /\ ckpt_opt.lr # tl_config.lr * LrUnit
    /\ ckpt_opt.momentum # tl_config.momentum
    /\ ckpt_opt.weight_decay # tl_config.weight_decay
    /\ Len(units) >= 2
    /\ units[2].fit = "fit"
    /\ units[2].epoch >= milestones[1]

=============================================================================
